---------------------------- MODULE Spec2Model ----------------------------
(***************************************************************************)
(* A model of studio-b12/ozzo-routing: the static file handlers of package *)
(* file (Server, Content, serveFile, compressionDir, ServerOptions) and    *)
(* the Cache-Control builder of package caching.                           *)
(*                                                                         *)
(* Go strings are TLA+ strings; a byte of a string s is SubSeq(s, i, i).   *)
(***************************************************************************)
EXTENDS Integers, Sequences, FiniteSets, TLC

VARIABLES
    pc,           \* position of the program
    handler,      \* which handler the program builds: Server or Content
    pathMap,      \* the PathMap given to Server
    opts,         \* the ServerOptions given to Server / Content / Merge
    contentPath,  \* the path given to Content
    options,      \* the merged options the handler closure holds
    from,         \* the sorted keys of pathMap (closure of Server)
    to,           \* the targets, in the order of from (closure of Server)
    dir,          \* the http.Dir the handler closure holds
    request,      \* c.Request: method, URL path, Accept-Encoding header
    fs,           \* the file tree, as far as it has been looked at
    path,         \* the local variable path: [path, found]
    encodings,    \* the negotiated encodings
    opened,       \* the result of the last compressionDir.Open
    files,        \* every file handle opened so far
    stack,        \* the call stack: per frame the handles its defers close
    resp,         \* what the handler returned and wrote to c.Response
    merged,       \* results of ServerOptions.Merge
    cacheOptions, \* caching.Options
    headerValue   \* result of Options.BuildHeaderValues

vars == <<pc, handler, pathMap, opts, contentPath, options, from, to, dir, request, fs,
          path, encodings, opened, files, stack, resp, merged, cacheOptions,
          headerValue>>

----------------------------------------------------------------------------
(* Bounds of the model.                                                    *)

\* longest path-map key of the lookup specification
MaxKeyLen == 2
\* most keys of a path map of the lookup specification
MaxKeys == 2
\* longest URL path of the lookup specification
MaxPathLen == 3
\* most candidate encodings of a compressionDir
MaxEncodings == 2
\* longest URL path of a request to a handler
MaxUrlLen == 3
\* most tokens of an Accept-Encoding header of the negotiation specification
MaxTokens == 2
\* most fields set in one ServerOptions of the merge specification
MaxSetFields == 2

----------------------------------------------------------------------------
(* Strings.                                                                *)

Range(s) == {s[i] : i \in DOMAIN s}

\* all strings over alphabet of at most n bytes
RECURSIVE StringsUpTo(_, _)
StringsUpTo(alphabet, n) ==
    IF n = 0 THEN {""}
    ELSE LET S == StringsUpTo(alphabet, n - 1)
         IN  S \cup {s \o c : s \in S, c \in alphabet}

Byte(s, i) == SubSeq(s, i, i)

\* the byte value of the characters the model uses (ASCII)
Ord(c) ==
    CASE c = " " -> 32 [] c = "," -> 44 [] c = "-" -> 45 [] c = "." -> 46
      [] c = "/" -> 47 [] c = "0" -> 48 [] c = "1" -> 49 [] c = "2" -> 50
      [] c = "=" -> 61 [] c = "B" -> 66 [] c = "G" -> 71 [] c = "R" -> 82
      [] c = "\\" -> 92 [] c = "a" -> 97 [] c = "b" -> 98 [] c = "c" -> 99
      [] c = "g" -> 103 [] c = "i" -> 105 [] c = "p" -> 112 [] c = "r" -> 114
      [] c = "w" -> 119 [] c = "x" -> 120 [] c = "y" -> 121 [] c = "z" -> 122

\* a < b for Go strings: bytewise lexicographic
RECURSIVE StringLess(_, _)
StringLess(a, b) ==
    IF b = "" THEN FALSE
    ELSE IF a = "" THEN TRUE
    ELSE IF Byte(a, 1) # Byte(b, 1) THEN Ord(Byte(a, 1)) < Ord(Byte(b, 1))
    ELSE StringLess(SubSeq(a, 2, Len(a)), SubSeq(b, 2, Len(b)))

HasPrefix(s, prefix) ==
    Len(prefix) <= Len(s) /\ SubSeq(s, 1, Len(prefix)) = prefix

Contains(s, sub) ==
    \E i \in 1..(Len(s) + 1) :
        i + Len(sub) - 1 <= Len(s) /\ SubSeq(s, i, i + Len(sub) - 1) = sub

\* sort.Strings: the ascending arrangement of the elements of s
RECURSIVE Insert(_, _)
Insert(sorted, x) ==
    IF sorted = <<>> THEN <<x>>
    ELSE IF StringLess(x, Head(sorted)) THEN <<x>> \o sorted
    ELSE <<Head(sorted)>> \o Insert(Tail(sorted), x)

RECURSIVE SortStrings(_)
SortStrings(s) ==
    IF s = <<>> THEN <<>>
    ELSE Insert(SortStrings(SubSeq(s, 1, Len(s) - 1)), s[Len(s)])

\* the orders in which a Go range statement may visit the keys of a map
Orders(keys) ==
    {s \in [1..Cardinality(keys) -> keys] : Range(s) = keys}

----------------------------------------------------------------------------
(* package file: the path map.                                             *)

matchPathForward(p, f, t) ==
    IF \E i \in DOMAIN f : HasPrefix(p, f[i])
    THEN LET i == CHOOSE i \in DOMAIN f :
                    /\ HasPrefix(p, f[i])
                    /\ \A j \in DOMAIN f : HasPrefix(p, f[j]) => i <= j
         IN  [path |-> t[i] \o SubSeq(p, Len(f[i]) + 1, Len(p)), found |-> TRUE]
    ELSE [path |-> "", found |-> FALSE]

\* from holds the keys in iteration order, then sorted; to[i] is the target
\* of from[i]
parsePathMap(pm, order) ==
    LET f == SortStrings(order)
    IN  [from |-> f, to |-> [i \in DOMAIN f |-> pm[f[i]]]]

\* the first prefix of p, scanning from from the last index down
matchPath(p, f, t) ==
    IF \E i \in DOMAIN f : HasPrefix(p, f[i])
    THEN LET i == CHOOSE i \in DOMAIN f :
                    /\ HasPrefix(p, f[i])
                    /\ \A j \in DOMAIN f : HasPrefix(p, f[j]) => j <= i
         IN  [path |-> t[i] \o SubSeq(p, Len(f[i]) + 1, Len(p)), found |-> TRUE]
    ELSE [path |-> "", found |-> FALSE]


----------------------------------------------------------------------------
(* package strings, path/filepath and net/http, as the handlers use them.  *)

\* strings.Split(s, sep) for a one-byte sep
RECURSIVE Split(_, _)
Split(s, sep) ==
    IF \E i \in 1..Len(s) : Byte(s, i) = sep
    THEN LET i == CHOOSE i \in 1..Len(s) :
                    /\ Byte(s, i) = sep
                    /\ \A j \in 1..(i - 1) : Byte(s, j) # sep
         IN  <<SubSeq(s, 1, i - 1)>> \o Split(SubSeq(s, i + 1, Len(s)), sep)
    ELSE <<s>>

RECURSIVE JoinStrings(_, _)
JoinStrings(elems, sep) ==
    IF elems = <<>> THEN ""
    ELSE IF Len(elems) = 1 THEN elems[1]
    ELSE elems[1] \o sep \o JoinStrings(Tail(elems), sep)

LowerByte(c) ==
    CASE c = "B" -> "b" [] c = "G" -> "g" [] c = "I" -> "i" [] c = "P" -> "p"
      [] c = "R" -> "r" [] c = "Z" -> "z" [] OTHER -> c

RECURSIVE ToLower(_)
ToLower(s) ==
    IF s = "" THEN "" ELSE LowerByte(Byte(s, 1)) \o ToLower(SubSeq(s, 2, Len(s)))

RECURSIVE TrimSpace(_)
TrimSpace(s) ==
    IF s = "" THEN ""
    ELSE IF Byte(s, 1) = " " THEN TrimSpace(SubSeq(s, 2, Len(s)))
    ELSE IF Byte(s, Len(s)) = " " THEN TrimSpace(SubSeq(s, 1, Len(s) - 1))
    ELSE s

isSlashRune(r) == r = "/" \/ r = "\\"

\* strings.FieldsFunc(s, isSlashRune): the maximal runs of bytes that are
\* not separators
RECURSIVE FieldsFunc(_, _)
FieldsFunc(s, field) ==
    IF s = "" THEN
        IF field = "" THEN <<>> ELSE <<field>>
    ELSE IF isSlashRune(Byte(s, 1)) THEN
        (IF field = "" THEN <<>> ELSE <<field>>)
            \o FieldsFunc(SubSeq(s, 2, Len(s)), "")
    ELSE FieldsFunc(SubSeq(s, 2, Len(s)), field \o Byte(s, 1))

\* path.Clean / filepath.Clean (Unix): the elements of p without "" and ".",
\* each ".." removing the element before it
RECURSIVE CleanElems(_, _, _)
CleanElems(elems, out, rooted) ==
    IF elems = <<>> THEN out
    ELSE LET e == Head(elems)
             rest == Tail(elems)
         IN  IF e = "" \/ e = "." THEN CleanElems(rest, out, rooted)
             ELSE IF e = ".." THEN
                 IF out # <<>> /\ out[Len(out)] # ".."
                 THEN CleanElems(rest, SubSeq(out, 1, Len(out) - 1), rooted)
                 ELSE IF rooted THEN CleanElems(rest, out, rooted)
                 ELSE CleanElems(rest, Append(out, e), rooted)
             ELSE CleanElems(rest, Append(out, e), rooted)

Clean(p) ==
    LET rooted == HasPrefix(p, "/")
        body == JoinStrings(CleanElems(Split(p, "/"), <<>>, rooted), "/")
        r == (IF rooted THEN "/" ELSE "") \o body
    IN  IF r = "" THEN "." ELSE r

IsAbs(p) == HasPrefix(p, "/")

\* filepath.Join of two elements
Join(a, b) ==
    IF a = "" /\ b = "" THEN ""
    ELSE IF a = "" THEN Clean(b)
    ELSE IF b = "" THEN Clean(a)
    ELSE Clean(a \o "/" \o b)

\* the file http.Dir(d).Open(name) opens
FullName(d, name) == Join(IF d = "" THEN "." ELSE d, Clean("/" \o name))

\* what a name of the file tree can be: missing, a regular file, a directory,
\* or a file that opens and whose Stat fails
Kinds == {"none", "file", "dir", "nostat"}

\* an open http.File: the file it reads and where it was opened from
Handle(full) == [name |-> full, src |-> "http.Dir", closed |-> FALSE]

\* http.Dir(d).Open(name) on the file tree: the file, or the error
DirOpen(d, name, tree) ==
    LET full == FullName(d, name)
    IN  IF tree[full] = "none"
        THEN [f |-> "", err |-> "open " \o full \o ": no such file or directory"]
        ELSE [f |-> full, err |-> ""]

----------------------------------------------------------------------------
(* package file: encodings.                                                *)

Brotli == "br"
GZip == "gzip"

\* a nil slice
NilSlice == [isNil |-> TRUE, elems |-> <<>>]
Slice(s) == [isNil |-> FALSE, elems |-> s]

\* n copies of x
Repeat(x, n) == [i \in 1..n |-> x]

RECURSIVE Flatten(_)
Flatten(ss) == IF ss = <<>> THEN <<>> ELSE Head(ss) \o Flatten(Tail(ss))

\* for each available encoding, in order, one entry per header token equal
\* to it
negotiateEncodings(header, available) ==
    IF Len(available.elems) = 0 THEN <<>>
    ELSE LET acceptEncodings == Split(header, ",")
             hits(availEnc) ==
                 Cardinality({j \in DOMAIN acceptEncodings :
                     availEnc = TrimSpace(ToLower(acceptEncodings[j]))})
         IN  Flatten([i \in DOMAIN available.elems |->
                        Repeat(available.elems[i], hits(available.elems[i]))])

\* only "/" taken as a separator
containsDotDotSlashOnly(v) ==
    \E i \in DOMAIN Split(v, "/") : Split(v, "/")[i] = ".."

\* containsDotDot: some field of v between slashes is ".."
containsDotDot(v) ==
    IF ~Contains(v, "..") THEN FALSE
    ELSE \E i \in DOMAIN FieldsFunc(v, "") : FieldsFunc(v, "")[i] = ".."

----------------------------------------------------------------------------
(* package file: compressionDir and ServerOptions.                         *)

\* the names compressionDir{d, encs}.Open(p) may look at
ProbedNames(cd, p) ==
    {FullName(cd.dir, p \o "." \o cd.encodings[i]) : i \in DOMAIN cd.encodings}
        \cup {FullName(cd.dir, p)}

\* compressionDir.Open from the i-th encoding on
RECURSIVE OpenFrom(_, _, _, _)
OpenFrom(cd, p, tree, i) ==
    IF i > Len(cd.encodings)
    THEN LET r == DirOpen(cd.dir, p, tree)
         IN  [f |-> r.f, enc |-> "", err |-> r.err]
    ELSE LET r == DirOpen(cd.dir, p \o "." \o cd.encodings[i], tree)
         IN  IF r.err = ""
             THEN [f |-> r.f, enc |-> cd.encodings[i], err |-> ""]
             ELSE OpenFrom(cd, p, tree, i + 1)

Reverse(s) == [i \in DOMAIN s |-> s[Len(s) + 1 - i]]

\* the last candidate whose file opens wins
OpenLastVariant(cd, p, tree) ==
    OpenFrom([cd EXCEPT !.encodings = Reverse(cd.encodings)], p, tree, 1)

Open(cd, p, tree) == OpenFrom(cd, p, tree, 1)

\* the zero value of ServerOptions
ZeroOptions ==
    [RootPath |-> "", IndexFile |-> "", CatchAllFile |-> "", Allow |-> "",
     Compression |-> NilSlice, FS |-> ""]

\* IndexFile wrongly kept from t when t has one
MergeKeepsIndexFile(t, other) ==
    [Allow        |-> IF other.Allow # "" THEN other.Allow ELSE t.Allow,
     CatchAllFile |-> IF other.CatchAllFile # "" THEN other.CatchAllFile
                      ELSE t.CatchAllFile,
     Compression  |-> IF ~other.Compression.isNil THEN other.Compression
                      ELSE t.Compression,
     IndexFile    |-> IF t.IndexFile # "" THEN t.IndexFile
                      ELSE other.IndexFile,
     RootPath     |-> IF other.RootPath # "" THEN other.RootPath
                      ELSE t.RootPath,
     FS           |-> IF other.FS # "" THEN other.FS ELSE t.FS]

Merge(t, other) ==
    [Allow        |-> IF other.Allow # "" THEN other.Allow ELSE t.Allow,
     CatchAllFile |-> IF other.CatchAllFile # "" THEN other.CatchAllFile
                      ELSE t.CatchAllFile,
     Compression  |-> IF ~other.Compression.isNil THEN other.Compression
                      ELSE t.Compression,
     IndexFile    |-> IF other.IndexFile # "" THEN other.IndexFile
                      ELSE t.IndexFile,
     RootPath     |-> IF other.RootPath # "" THEN other.RootPath
                      ELSE t.RootPath,
     FS           |-> IF other.FS # "" THEN other.FS ELSE t.FS]

\* the package variable RootPath: the working directory at start
RootPath == "/w"

RECURSIVE MergeAll(_, _)
MergeAll(o, os) ==
    IF os = <<>> THEN o ELSE MergeAll(Merge(o, Head(os)), Tail(os))

getServerOptions(os) ==
    LET o == MergeAll(ZeroOptions, os)
    IN  IF ~IsAbs(o.RootPath)
        THEN [o EXCEPT !.RootPath = Join(RootPath, o.RootPath)]
        ELSE o

----------------------------------------------------------------------------
(* Values the specifications leave alone.                                  *)

NoRequest == [method |-> "", path |-> "", acceptEncoding |-> ""]
NoPath == [path |-> "", found |-> FALSE]
NoOpened == [f |-> "", enc |-> "", err |-> ""]
NoResp == [returned |-> FALSE, err |-> 0, message |-> "",
           contentEncoding |-> "", body |-> ""]
NoCacheOptions ==
    [Access |-> "", MaxAge |-> 0, SMaxAge |-> 0, NoCache |-> FALSE,
     NoStore |-> FALSE, MustRevalidate |-> FALSE, ProxyRevalidate |-> FALSE,
     MustUnderstand |-> FALSE, NoTransform |-> FALSE, Immutable |-> FALSE]
EmptyMap == [k \in {} |-> ""]

cachingVars == <<cacheOptions, headerValue>>

----------------------------------------------------------------------------
(* The path lookup: parsePathMap, then matchPath, over every small path    *)
(* map and URL path.                                                       *)

KeyAlphabet == {"/", "a"}
Targets == {"/x", "/y"}

PathMaps ==
    UNION {[keys -> Targets] :
             keys \in {ks \in SUBSET StringsUpTo(KeyAlphabet, MaxKeyLen) :
                          Cardinality(ks) <= MaxKeys}}

LookupInit ==
    /\ pc = "new"
    /\ handler = ""
    /\ pathMap \in PathMaps
    /\ request \in {[NoRequest EXCEPT !.path = p] :
                       p \in StringsUpTo(KeyAlphabet, MaxPathLen)}
    /\ opts = <<>> /\ contentPath = "" /\ options = ZeroOptions
    /\ from = <<>> /\ to = <<>> /\ dir = "" /\ fs = EmptyMap
    /\ path = NoPath /\ encodings = <<>> /\ opened = NoOpened
    /\ files = <<>> /\ stack = <<>> /\ resp = NoResp /\ merged = <<>>
    /\ cacheOptions = NoCacheOptions /\ headerValue = ""

\* from, to := parsePathMap(pathMap)
ParsePathMap ==
    /\ pc = "new"
    /\ \E order \in Orders(DOMAIN pathMap) :
          /\ from' = parsePathMap(pathMap, order).from
          /\ to' = parsePathMap(pathMap, order).to
    /\ pc' = "parsed"
    /\ UNCHANGED <<handler, pathMap, opts, contentPath, options, dir, request,
                   fs, path, encodings, opened, files, stack, resp, merged, cachingVars>>

\* path, found := matchPath(c.Request.URL.Path, from, to)
MatchPath ==
    /\ pc = "parsed"
    /\ path' = matchPath(request.path, from, to)
    /\ pc' = "matched"
    /\ UNCHANGED <<handler, pathMap, opts, contentPath, options, from, to, dir,
                   request, fs, encodings, opened, files, stack, resp, merged,
                   cachingVars>>

LookupNext == ParsePathMap \/ MatchPath

LookupSpec == LookupInit /\ [][LookupNext]_vars

\* the keys of the path map that are prefixes of the URL path
MatchingKeys == {k \in DOMAIN pathMap : HasPrefix(request.path, k)}

LongestMatchingKey ==
    CHOOSE k \in MatchingKeys : \A k2 \in MatchingKeys : Len(k2) <= Len(k)

\* C1: the lookup resolves the URL path through the longest key of the path
\* map that is a prefix of it (that key's target, then the rest of the path),
\* and reports not-found exactly when no key is a prefix of it.
LongestPrefixWins ==
    pc = "matched" =>
        IF MatchingKeys = {}
        THEN ~path.found
        ELSE /\ path.found
             /\ path.path = pathMap[LongestMatchingKey]
                    \o SubSeq(request.path, Len(LongestMatchingKey) + 1,
                              Len(request.path))

\* two keys of different targets are prefixes of the path
LongestPrefixWitness ==
    /\ pc = "matched"
    /\ path.found
    /\ \E k1, k2 \in MatchingKeys : k1 # k2 /\ pathMap[k1] # pathMap[k2]

\* no key is a prefix of the path although the map has keys
NotFoundWitness ==
    pc = "matched" /\ ~path.found /\ DOMAIN pathMap # {}

----------------------------------------------------------------------------
(* compressionDir.Open over every small list of encodings and every file   *)
(* tree.                                                                   *)

RECURSIVE SeqsUpTo(_, _)
SeqsUpTo(S, n) ==
    IF n = 0 THEN {<<>>}
    ELSE LET R == SeqsUpTo(S, n - 1)
         IN  R \cup {Append(r, x) : r \in R, x \in S}

OpenInit ==
    /\ pc = "new"
    /\ handler = ""
    /\ dir = RootPath
    /\ path \in {[path |-> p, found |-> TRUE] : p \in {"/x/a", "/x/"}}
    /\ encodings \in SeqsUpTo({Brotli, GZip}, MaxEncodings)
    /\ fs \in [ProbedNames([dir |-> dir, encodings |-> <<Brotli, GZip>>],
                           path.path) -> Kinds]
    /\ pathMap = EmptyMap /\ opts = <<>> /\ contentPath = ""
    /\ options = ZeroOptions /\ from = <<>> /\ to = <<>>
    /\ request = NoRequest /\ opened = NoOpened
    /\ files = <<>> /\ stack = <<>> /\ resp = NoResp /\ merged = <<>>
    /\ cacheOptions = NoCacheOptions /\ headerValue = ""

\* file, enc, err = dir.Open(path)
CompressionDirOpen ==
    /\ pc = "new"
    /\ opened' = Open([dir |-> dir, encodings |-> encodings], path.path, fs)
    /\ files' = IF opened'.err = "" THEN Append(files, Handle(opened'.f))
                ELSE files
    /\ pc' = "opened"
    /\ UNCHANGED <<handler, pathMap, opts, contentPath, options, from, to, dir,
                   request, fs, path, encodings, stack, resp, merged,
                   cachingVars>>

OpenNext == CompressionDirOpen

OpenSpec == OpenInit /\ [][OpenNext]_vars

\* the file of the i-th candidate encoding
Variant(i) == FullName(dir, path.path \o "." \o encodings[i])

\* the candidates whose suffixed file opens
OpeningVariants == {i \in DOMAIN encodings : fs[Variant(i)] # "none"}

\* C4: Open returns the suffixed file of the first candidate encoding whose
\* file opens, with that encoding; with no such candidate the unsuffixed file
\* and no encoding; and if that fails the error of the unsuffixed attempt.
FirstOpeningVariant ==
    pc = "opened" =>
        IF OpeningVariants # {}
        THEN LET i == CHOOSE i \in OpeningVariants :
                         \A j \in OpeningVariants : i <= j
             IN  opened = [f |-> Variant(i), enc |-> encodings[i], err |-> ""]
        ELSE IF fs[FullName(dir, path.path)] # "none"
        THEN opened = [f |-> FullName(dir, path.path), enc |-> "", err |-> ""]
        ELSE opened = [f |-> "", enc |-> "",
                       err |-> "open " \o FullName(dir, path.path)
                                  \o ": no such file or directory"]

\* the first candidate is missing and the second one opens
SecondVariantWitness ==
    /\ pc = "opened"
    /\ Len(encodings) = 2
    /\ encodings[1] # encodings[2]
    /\ fs[Variant(1)] = "none"
    /\ opened.enc = encodings[2]

----------------------------------------------------------------------------
(* The handlers Server and Content: construction, then one request.        *)

UrlAlphabet == {"/", "\\", ".", "a"}

Requests ==
    [method : {"GET", "HEAD", "POST"},
     path : StringsUpTo(UrlAlphabet, MaxUrlLen),
     acceptEncoding : {"", "br"}]

HandlerPathMaps == {"/a" :> "/x", "/" :> "/y" @@ "/a" :> "/x"}

ServerOptionSets ==
    [RootPath : {""}, IndexFile : {"", "i"}, CatchAllFile : {"", "c"},
     Allow : {"", "allowAll", "denyAll"},
     Compression : {NilSlice, Slice(<<Brotli>>)},
     FS : {"", "embed.FS"}]

ContentOptionSets ==
    [RootPath : {""}, IndexFile : {""}, CatchAllFile : {""}, Allow : {""},
     Compression : {NilSlice, Slice(<<Brotli>>)}, FS : {"", "embed.FS"}]

\* an Allow function of the options: allowAll permits every path, denyAll none
Allow(fn, c, p) == fn = "allowAll"

\* the catch-all file of the options, as the handler opens it
CatchAllName(os) ==
    FullName(getServerOptions(os).RootPath, getServerOptions(os).CatchAllFile)

HandlerInit ==
    /\ pc = "new"
    /\ handler \in {"Server", "Content"}
    /\ pathMap \in IF handler = "Server" THEN HandlerPathMaps ELSE {EmptyMap}
    /\ opts \in {<<o>> : o \in IF handler = "Server" THEN ServerOptionSets
                                ELSE ContentOptionSets}
    /\ contentPath \in IF handler = "Content" THEN {"a", "/x/a"} ELSE {""}
    /\ fs \in IF getServerOptions(opts).CatchAllFile # ""
              THEN [{CatchAllName(opts)} -> Kinds]
              ELSE {EmptyMap}
    /\ options = ZeroOptions /\ from = <<>> /\ to = <<>> /\ dir = ""
    /\ request = NoRequest /\ path = NoPath /\ encodings = <<>>
    /\ opened = NoOpened /\ files = <<>> /\ stack = <<>> /\ resp = NoResp
    /\ merged = <<>>
    /\ cacheOptions = NoCacheOptions /\ headerValue = ""

configVars == <<handler, pathMap, opts, contentPath>>
closureVars == <<options, from, to, dir>>

\* Server(pathMap, opts...) up to the handler it returns
Server ==
    /\ pc = "new" /\ handler = "Server"
    /\ options' = getServerOptions(opts)
    /\ \E order \in Orders(DOMAIN pathMap) :
          /\ from' = parsePathMap(pathMap, order).from
          /\ to' = parsePathMap(pathMap, order).to
    /\ dir' = options'.RootPath
    /\ pc' = "ready"
    /\ UNCHANGED <<configVars, request, fs, path, encodings, opened, files,
                   stack, resp, merged, cachingVars>>

\* Content(path, opts...) up to the handler it returns
Content ==
    /\ pc = "new" /\ handler = "Content"
    /\ options' = getServerOptions(opts)
    /\ IF IsAbs(contentPath)
       THEN dir' = contentPath /\ path' = [path |-> "", found |-> FALSE]
       ELSE dir' = options'.RootPath
            /\ path' = [path |-> contentPath, found |-> FALSE]
    /\ pc' = "ready"
    /\ UNCHANGED <<configVars, from, to, request, fs, encodings, opened, files,
                   stack, resp, merged, cachingVars>>

\* routing.NewHTTPError(status, message), returned or on its way up
NewHTTPError(status, message, returned) ==
    [returned |-> returned, err |-> status, message |-> message,
     contentEncoding |-> "", body |-> ""]

\* the Content-Encoding header if enc is set, http.ServeContent of the file,
\* return nil
ServeContent(f, enc, returned) ==
    [returned |-> returned, err |-> 0, message |-> "",
     contentEncoding |-> enc, body |-> f]

Frame(fn, arg) == [fn |-> fn, arg |-> arg, defers |-> <<>>]

\* no Close is deferred
DeferNothing(st, handle) == st

\* defer file.Close() in the top frame, for the handle just opened
Defer(st, handle) ==
    [st EXCEPT ![Len(st)].defers = Append(@, handle)]

\* the return of the top frame: its deferred Close calls run
Closed(fl, st) ==
    [i \in DOMAIN fl |->
        IF i \in Range(st[Len(st)].defers) THEN [fl[i] EXCEPT !.closed = TRUE]
        ELSE fl[i]]

Pop(st) == SubSeq(st, 1, Len(st) - 1)

\* the file trees that agree with tree and tell the kind of every name in
\* names
Looked(tree, names) ==
    {k @@ tree : k \in [names \ DOMAIN tree -> Kinds]}

\* the handler of Server, from its entry to dir.Open
ServerEnter ==
    /\ pc = "ready" /\ handler = "Server"
    /\ \E req \in Requests :
          /\ request' = req
          /\ IF req.method # "GET" /\ req.method # "HEAD" THEN
                /\ resp' = NewHTTPError(405, "", TRUE)
                /\ pc' = "done"
                /\ UNCHANGED <<path, encodings, stack>>
             ELSE IF containsDotDot(req.path) THEN
                /\ resp' = NewHTTPError(400, "invalid URL path", TRUE)
                /\ pc' = "done"
                /\ UNCHANGED <<path, encodings, stack>>
             ELSE
                /\ path' = matchPath(req.path, from, to)
                /\ IF \/ ~path'.found
                      \/ options.Allow # ""
                            /\ ~Allow(options.Allow, req, path'.path)
                   THEN /\ resp' = NewHTTPError(404, "", TRUE)
                        /\ pc' = "done"
                        /\ UNCHANGED <<encodings, stack>>
                   ELSE /\ encodings' = negotiateEncodings(req.acceptEncoding,
                                                           options.Compression)
                        /\ stack' = <<Frame("Server", "")>>
                        /\ pc' = "Server.open"
                        /\ resp' = resp
    /\ UNCHANGED <<configVars, closureVars, fs, opened, files, merged,
                   cachingVars>>

\* file, enc, err = dir.Open(path) in the handler of Server, and what follows
\* its failure
ServerOpen ==
    /\ pc = "Server.open"
    /\ LET cd == [dir |-> dir, encodings |-> encodings]
       IN  \E tree \in Looked(fs, ProbedNames(cd, path.path)) :
              /\ fs' = tree
              /\ opened' = Open(cd, path.path, tree)
              /\ IF opened'.err # "" THEN
                    IF options.CatchAllFile # "" THEN
                       /\ stack' = Append(stack,
                                          Frame("serveFile", options.CatchAllFile))
                       /\ pc' = "serveFile.open"
                       /\ UNCHANGED <<files, resp>>
                    ELSE
                       /\ resp' = NewHTTPError(404, opened'.err, TRUE)
                       /\ stack' = Pop(stack)
                       /\ pc' = "done"
                       /\ UNCHANGED files
                 ELSE
                    /\ files' = Append(files, Handle(opened'.f))
                    /\ stack' = Defer(stack, Len(files'))
                    /\ pc' = "Server.stat"
                    /\ UNCHANGED resp
    /\ UNCHANGED <<configVars, closureVars, request, path, encodings, merged,
                   cachingVars>>

\* the handler of Server from file.Stat() on
ServerStat ==
    /\ pc = "Server.stat"
    /\ IF fs[opened.f] = "nostat" THEN
          /\ resp' = NewHTTPError(404, "stat " \o opened.f, TRUE)
          /\ files' = Closed(files, stack)
          /\ stack' = Pop(stack)
          /\ pc' = "done"
       ELSE IF fs[opened.f] = "dir" THEN
          IF options.IndexFile = "" THEN
             /\ resp' = NewHTTPError(404, "", TRUE)
             /\ files' = Closed(files, stack)
             /\ stack' = Pop(stack)
             /\ pc' = "done"
          ELSE
             /\ stack' = Append(stack, Frame("serveFile",
                                             Join(path.path, options.IndexFile)))
             /\ pc' = "serveFile.open"
             /\ UNCHANGED <<files, resp>>
       ELSE
          /\ resp' = ServeContent(opened.f, opened.enc, TRUE)
          /\ files' = Closed(files, stack)
          /\ stack' = Pop(stack)
          /\ pc' = "done"
    /\ UNCHANGED <<configVars, closureVars, request, fs, path, encodings,
                   opened, merged, cachingVars>>

\* the handler of Content, from its entry to serveFile
ContentEnter ==
    /\ pc = "ready" /\ handler = "Content"
    /\ \E req \in Requests :
          /\ request' = req
          /\ IF req.method # "GET" /\ req.method # "HEAD" THEN
                /\ resp' = NewHTTPError(405, "", TRUE)
                /\ pc' = "done"
                /\ UNCHANGED <<encodings, stack>>
             ELSE IF containsDotDot(req.path) THEN
                /\ resp' = NewHTTPError(400, "invalid URL path", TRUE)
                /\ pc' = "done"
                /\ UNCHANGED <<encodings, stack>>
             ELSE
                /\ encodings' = negotiateEncodings(req.acceptEncoding,
                                                   options.Compression)
                /\ stack' = <<Frame("Content", ""), Frame("serveFile", path.path)>>
                /\ pc' = "serveFile.open"
                /\ resp' = resp
    /\ UNCHANGED <<configVars, closureVars, fs, path, opened, files, merged,
                   cachingVars>>

\* serveFile: file, enc, err := dir.Open(path)
ServeFileOpen ==
    /\ pc = "serveFile.open"
    /\ LET cd == [dir |-> dir, encodings |-> encodings]
           arg == stack[Len(stack)].arg
       IN  \E tree \in Looked(fs, ProbedNames(cd, arg)) :
              /\ fs' = tree
              /\ opened' = Open(cd, arg, tree)
              /\ IF opened'.err # "" THEN
                    /\ resp' = NewHTTPError(404, opened'.err, FALSE)
                    /\ stack' = Pop(stack)
                    /\ pc' = "return"
                    /\ UNCHANGED files
                 ELSE
                    /\ files' = Append(files, Handle(opened'.f))
                    /\ stack' = Defer(stack, Len(files'))
                    /\ pc' = "serveFile.stat"
                    /\ UNCHANGED resp
    /\ UNCHANGED <<configVars, closureVars, request, path, encodings, merged,
                   cachingVars>>

\* serveFile from file.Stat() to its return
ServeFileStat ==
    /\ pc = "serveFile.stat"
    /\ resp' = IF fs[opened.f] = "nostat"
               THEN NewHTTPError(404, "stat " \o opened.f, FALSE)
               ELSE IF fs[opened.f] = "dir" THEN NewHTTPError(404, "", FALSE)
               ELSE ServeContent(opened.f, opened.enc, FALSE)
    /\ files' = Closed(files, stack)
    /\ stack' = Pop(stack)
    /\ pc' = "return"
    /\ UNCHANGED <<configVars, closureVars, request, fs, path, encodings,
                   opened, merged, cachingVars>>

\* return serveFile(...): the handler returns what serveFile returned
HandlerReturn ==
    /\ pc = "return"
    /\ resp' = [resp EXCEPT !.returned = TRUE]
    /\ files' = Closed(files, stack)
    /\ stack' = Pop(stack)
    /\ pc' = "done"
    /\ UNCHANGED <<configVars, closureVars, request, fs, path, encodings,
                   opened, merged, cachingVars>>

HandlerNext ==
    \/ Server
    \/ Content
    \/ ServerEnter
    \/ ServerOpen
    \/ ServerStat
    \/ ContentEnter
    \/ ServeFileOpen
    \/ ServeFileStat
    \/ HandlerReturn

HandlerSpec == HandlerInit /\ [][HandlerNext]_vars

----------------------------------------------------------------------------
(* Properties of the handlers.                                             *)

GetOrHead == request.method \in {"GET", "HEAD"}

\* p has a path element "..": ".." with a slash or an end of p on both sides
HasDotDotSegment(p) ==
    \E i \in 1..(Len(p) - 1) :
        /\ SubSeq(p, i, i + 1) = ".."
        /\ i = 1 \/ Byte(p, i - 1) \in {"/", "\\"}
        /\ i + 1 = Len(p) \/ Byte(p, i + 2) \in {"/", "\\"}

\* C2 as stated: every request with a ".." element in its URL path gets the
\* BadRequest error, and no file is opened for it.
TraversalAlwaysBadRequest ==
    (pc = "done" /\ HasDotDotSegment(request.path)) =>
        (resp.err = 400 /\ files = <<>>)

\* C2, amended: a GET or HEAD request with a ".." element in its URL path
\* gets the BadRequest error, any other method gets MethodNotAllowed first,
\* and in both cases no file is opened.
TraversalRejected ==
    (pc = "done" /\ HasDotDotSegment(request.path)) =>
        /\ files = <<>>
        /\ fs = IF options.CatchAllFile # ""
                THEN [n \in {CatchAllName(opts)} |-> fs[n]] ELSE EmptyMap
        /\ resp.err = IF GetOrHead THEN 400 ELSE 405

\* a GET of a path whose ".." element stands between backslashes
TraversalWitness ==
    /\ pc = "done"
    /\ request.method = "GET"
    /\ request.path = "\\.."
    /\ resp.err = 400

\* the names the handler of Server looks at for the mapped path
MappedNames ==
    ProbedNames([dir |-> dir, encodings |-> encodings], path.path)

\* the names serveFile looks at for the catch-all file
CatchAllNames ==
    ProbedNames([dir |-> dir, encodings |-> encodings], options.CatchAllFile)

\* the catch-all file is configured and is a regular file, and so are its
\* compressed variants the request has looked at
CatchAllExists ==
    /\ options.CatchAllFile # ""
    /\ fs[CatchAllName(opts)] = "file"
    /\ \A n \in CatchAllNames \cap DOMAIN fs : fs[n] \in {"none", "file"}

Vetoed ==
    options.Allow # "" /\ ~Allow(options.Allow, request, path.path)

\* C3: with an existing catch-all file, a GET or HEAD request without ".."
\* whose path matches no key of the path map, or whose mapped file cannot be
\* opened, is answered with the catch-all file.
CatchAllServed ==
    ( /\ pc = "done" /\ handler = "Server"
      /\ GetOrHead /\ ~HasDotDotSegment(request.path)
      /\ CatchAllExists
      /\ \/ \A k \in DOMAIN pathMap : ~HasPrefix(request.path, k)
         \/ ~Vetoed /\ \A n \in MappedNames : n \in DOMAIN fs /\ fs[n] = "none" )
    => (resp.err = 0 /\ resp.body \in CatchAllNames)

\* the half of C3 the handler keeps: the mapped file cannot be opened
CatchAllServedOnOpenFailure ==
    ( /\ pc = "done" /\ handler = "Server"
      /\ GetOrHead /\ ~HasDotDotSegment(request.path)
      /\ CatchAllExists
      /\ path.found /\ ~Vetoed
      /\ \A n \in MappedNames : n \in DOMAIN fs /\ fs[n] = "none" )
    => (resp.err = 0 /\ resp.body \in CatchAllNames)

\* C5: with ServerOptions.FS set, every file is opened from that FS.
FSOverridesRootPath ==
    options.FS # "" => \A i \in DOMAIN files : files[i].src = options.FS

\* C6: when the file of the Content handler does not exist, the handler of a
\* GET or HEAD request without ".." returns no error, so that the next
\* handler of the route runs.
ContentMissingPassesOn ==
    ( /\ pc = "done" /\ handler = "Content"
      /\ GetOrHead /\ ~HasDotDotSegment(request.path)
      /\ \A n \in MappedNames : n \in DOMAIN fs /\ fs[n] = "none" )
    => resp.err = 0

\* C10: when the handler has returned, every file handle opened during the
\* request is closed; before that, every open handle has a deferred Close in
\* a frame of the stack.
NoLeakedHandles ==
    /\ pc = "done" => stack = <<>> /\ \A i \in DOMAIN files : files[i].closed
    /\ \A i \in DOMAIN files :
          ~files[i].closed => \E j \in DOMAIN stack : i \in Range(stack[j].defers)

\* a directory was opened, then its index file, and the handler has returned
NoLeakedHandlesWitness ==
    /\ pc = "done"
    /\ Len(files) = 2
    /\ fs[files[1].name] = "dir"
    /\ resp.body = files[2].name

----------------------------------------------------------------------------
(* negotiateEncodings over every small Accept-Encoding header and every    *)
(* duplicate-free list of available encodings.                             *)

RawTokens == {"br", " Br", "gzip ", "GZIP", "zip"}

AcceptEncodingHeaders ==
    {JoinStrings(ts, ",") : ts \in SeqsUpTo(RawTokens, MaxTokens)}

AvailableLists ==
    {NilSlice} \cup
    {Slice(s) : s \in {<<>>, <<Brotli>>, <<GZip>>, <<Brotli, GZip>>,
                       <<GZip, Brotli>>}}

NegotiateInit ==
    /\ pc = "new"
    /\ handler = ""
    /\ options \in {[ZeroOptions EXCEPT !.Compression = a] : a \in AvailableLists}
    /\ request \in {[NoRequest EXCEPT !.acceptEncoding = h] :
                       h \in AcceptEncodingHeaders}
    /\ pathMap = EmptyMap /\ opts = <<>> /\ contentPath = ""
    /\ from = <<>> /\ to = <<>> /\ dir = "" /\ fs = EmptyMap
    /\ path = NoPath /\ encodings = <<>> /\ opened = NoOpened
    /\ files = <<>> /\ stack = <<>> /\ resp = NoResp /\ merged = <<>>
    /\ cacheOptions = NoCacheOptions /\ headerValue = ""

\* encodings := negotiateEncodings(c, options.Compression)
NegotiateEncodings ==
    /\ pc = "new"
    /\ encodings' = negotiateEncodings(request.acceptEncoding, options.Compression)
    /\ pc' = "negotiated"
    /\ UNCHANGED <<configVars, closureVars, request, fs, path, opened, files,
                   stack, resp, merged, cachingVars>>

NegotiateNext == NegotiateEncodings

NegotiateSpec == NegotiateInit /\ [][NegotiateNext]_vars

\* the header's comma-separated tokens, trimmed and lowercased
AcceptedTokens ==
    {TrimSpace(ToLower(t)) : t \in Range(Split(request.acceptEncoding, ","))}

IsAccepted(e) == e \in AcceptedTokens

\* C9: the result holds exactly the available encodings that equal a header
\* token after trimming and lowercasing, each once, in the order of the
\* available list; it is empty when the available list or the header is.
NegotiationIsSubList ==
    pc = "negotiated" =>
        /\ encodings = SelectSeq(options.Compression.elems, IsAccepted)
        /\ (options.Compression.elems = <<>> \/ request.acceptEncoding = "")
              => encodings = <<>>

\* what negotiateEncodings keeps of C9: the result holds only accepted
\* available encodings, in the order of the available list, each as often as
\* the header names it
NegotiationUpToRepeats ==
    pc = "negotiated" =>
        /\ \A i \in DOMAIN encodings :
              /\ IsAccepted(encodings[i])
              /\ encodings[i] \in Range(options.Compression.elems)
        /\ \A e \in Range(options.Compression.elems) :
              IsAccepted(e) => e \in Range(encodings)
        /\ \A i, j \in DOMAIN encodings :
              i < j => \E a, b \in DOMAIN options.Compression.elems :
                          /\ a <= b
                          /\ options.Compression.elems[a] = encodings[i]
                          /\ options.Compression.elems[b] = encodings[j]

----------------------------------------------------------------------------
(* ServerOptions.Merge and the fold of getServerOptions, over option sets  *)
(* with few fields set.                                                    *)

Fields == {"RootPath", "IndexFile", "CatchAllFile", "Allow", "Compression", "FS"}

\* whether a value of field f counts as set
IsSet(f, v) == IF f = "Compression" THEN ~v.isNil ELSE v # ""

\* the option sets with the fields of S set, to values that name their owner
OptionSetsOf(tag, root) ==
    {[RootPath     |-> IF "RootPath" \in S THEN root ELSE "",
      IndexFile    |-> IF "IndexFile" \in S THEN tag \o ".html" ELSE "",
      CatchAllFile |-> IF "CatchAllFile" \in S THEN tag \o ".404" ELSE "",
      Allow        |-> IF "Allow" \in S THEN tag \o ".allow" ELSE "",
      Compression  |-> IF "Compression" \in S THEN c ELSE NilSlice,
      FS           |-> IF "FS" \in S THEN tag \o ".fs" ELSE ""] :
        S \in {T \in SUBSET Fields : Cardinality(T) <= MaxSetFields},
        c \in {Slice(<<>>), Slice(<<tag>>)}}

NoMerged ==
    [ab |-> ZeroOptions, ab_c |-> ZeroOptions, bc |-> ZeroOptions,
     a_bc |-> ZeroOptions]

MergeInit ==
    /\ pc = "new"
    /\ handler = ""
    /\ opts \in {<<a, b, c>> : a \in OptionSetsOf("a", "a"),
                              b \in OptionSetsOf("b", "/b"),
                              c \in OptionSetsOf("c", "c")}
    /\ merged = NoMerged
    /\ options = ZeroOptions
    /\ pathMap = EmptyMap /\ contentPath = ""
    /\ from = <<>> /\ to = <<>> /\ dir = "" /\ fs = EmptyMap
    /\ request = NoRequest /\ path = NoPath /\ encodings = <<>>
    /\ opened = NoOpened /\ files = <<>> /\ stack = <<>> /\ resp = NoResp
    /\ cacheOptions = NoCacheOptions /\ headerValue = ""

mergeRest == <<handler, pathMap, contentPath, from, to, dir, request, fs, path,
               encodings, opened, files, stack, resp, cachingVars>>

\* ab := a.Merge(b); ab_c := ab.Merge(c)
MergeLeft ==
    /\ pc = "new"
    /\ merged' = [merged EXCEPT !.ab = Merge(opts[1], opts[2]),
                                !.ab_c = Merge(Merge(opts[1], opts[2]), opts[3])]
    /\ pc' = "left"
    /\ UNCHANGED <<opts, options, mergeRest>>

\* bc := b.Merge(c); a_bc := a.Merge(bc)
MergeRight ==
    /\ pc = "left"
    /\ merged' = [merged EXCEPT !.bc = Merge(opts[2], opts[3]),
                                !.a_bc = Merge(opts[1], Merge(opts[2], opts[3]))]
    /\ pc' = "right"
    /\ UNCHANGED <<opts, options, mergeRest>>

\* options := getServerOptions(opts)
GetServerOptions ==
    /\ pc = "right"
    /\ options' = getServerOptions(opts)
    /\ pc' = "folded"
    /\ UNCHANGED <<opts, merged, mergeRest>>

MergeNext == MergeLeft \/ MergeRight \/ GetServerOptions

MergeSpec == MergeInit /\ [][MergeNext]_vars

\* the value of field f the right-most option set of os sets, or zero
RightMost(os, f) ==
    IF \E i \in DOMAIN os : IsSet(f, os[i][f])
    THEN LET i == CHOOSE i \in DOMAIN os :
                    /\ IsSet(f, os[i][f])
                    /\ \A j \in DOMAIN os : IsSet(f, os[j][f]) => j <= i
         IN  os[i][f]
    ELSE ZeroOptions[f]

\* the results of the merges, as far as they are computed
MergeResults ==
    /\ pc # "new" =>
          \A f \in Fields :
              merged.ab[f] = IF IsSet(f, opts[2][f]) THEN opts[2][f]
                             ELSE opts[1][f]
    /\ pc \in {"right", "folded"} => merged.ab_c = merged.a_bc
    /\ pc = "folded" =>
          /\ \A f \in Fields \ {"RootPath"} : options[f] = RightMost(opts, f)
          /\ options.RootPath =
                IF IsAbs(RightMost(opts, "RootPath"))
                THEN RightMost(opts, "RootPath")
                ELSE Join(RootPath, RightMost(opts, "RootPath"))

\* C8: a.Merge(b) has b's value in every field b sets and a's value in the
\* others, and the operands stay as they were; merging is associative; and
\* the left-to-right fold of getServerOptions gives every field its
\* right-most set value (RootPath then made absolute).
MergeRightBiased == []MergeResults /\ [][opts' = opts]_vars

\* a field both a and b set, and a field only a sets, after the merges
MergeWitness ==
    /\ pc = "folded"
    /\ \E f, g \in Fields :
          /\ IsSet(f, opts[1][f]) /\ IsSet(f, opts[2][f])
          /\ merged.ab[f] = opts[2][f]
          /\ IsSet(g, opts[1][g]) /\ ~IsSet(g, opts[2][g])
          /\ merged.ab[g] = opts[1][g]
    /\ merged.ab_c # merged.ab

----------------------------------------------------------------------------
(* package caching: Options.BuildHeaderValues.                             *)

\* time.Second, in nanoseconds
Second == 1000000000

Abs(n) == IF n < 0 THEN -n ELSE n

\* Duration.Round(time.Second): halfway values round away from zero
Round(d) ==
    LET r == Abs(d) % Second
    IN  IF d < 0
        THEN IF r + r < Second THEN d + r ELSE d - (Second - r)
        ELSE IF r + r < Second THEN d - r ELSE d + (Second - r)

\* int64(d.Seconds()) of a duration
Seconds(d) == IF d < 0 THEN -(Abs(d) \div Second) ELSE d \div Second

Digit(n) ==
    CASE n = 0 -> "0" [] n = 1 -> "1" [] n = 2 -> "2" [] n = 3 -> "3"
      [] n = 4 -> "4" [] n = 5 -> "5" [] n = 6 -> "6" [] n = 7 -> "7"
      [] n = 8 -> "8" [] n = 9 -> "9"

\* the verb %d of package fmt
RECURSIVE Itoa(_)
Itoa(n) ==
    IF n < 0 THEN "-" \o Itoa(-n)
    ELSE IF n < 10 THEN Digit(n)
    ELSE Itoa(n \div 10) \o Digit(n % 10)

\* what BuildHeaderValues has written to sb before it cuts the result
Written(t) ==
    (IF t.Access # "" THEN t.Access \o ", " ELSE "")
    \o (IF t.MaxAge # 0
        THEN "max-age=" \o Itoa(Seconds(Round(t.MaxAge))) \o ", " ELSE "")
    \o (IF t.SMaxAge # 0
        THEN "s-max-age=" \o Itoa(Seconds(Round(t.SMaxAge))) \o ", " ELSE "")
    \o (IF t.NoCache THEN "no-cache, " ELSE "")
    \o (IF t.NoStore THEN "no-store, " ELSE "")
    \o (IF t.MustRevalidate THEN "must-revalidate, " ELSE "")
    \o (IF t.ProxyRevalidate THEN "proxy-revalidate, " ELSE "")
    \o (IF t.MustUnderstand THEN "must-understand, " ELSE "")
    \o (IF t.NoTransform THEN "no-transform, " ELSE "")
    \o (IF t.Immutable THEN "immutable, " ELSE "")

\* only the trailing space is cut
BuildHeaderValuesCutsOne(t) ==
    LET v == Written(t)
    IN  IF Len(v) < 2 THEN "" ELSE SubSeq(v, 1, Len(v) - 1)

BuildHeaderValues(t) ==
    LET v == Written(t)
    IN  IF Len(v) < 2 THEN "" ELSE SubSeq(v, 1, Len(v) - 2)

\* durations: none, below and at half a second, whole and one and a half
\* seconds, and a negative one
Durations == {0, 499999999, 500000000, Second, 1500000000, -1500000000}

CacheOptionSets ==
    [Access : {"", "public", "private"}, MaxAge : Durations,
     SMaxAge : Durations, NoCache : BOOLEAN, NoStore : BOOLEAN,
     MustRevalidate : BOOLEAN, ProxyRevalidate : BOOLEAN,
     MustUnderstand : BOOLEAN, NoTransform : BOOLEAN, Immutable : BOOLEAN]

CacheInit ==
    /\ pc = "new"
    /\ cacheOptions \in CacheOptionSets
    /\ headerValue = ""
    /\ handler = "" /\ pathMap = EmptyMap /\ opts = <<>> /\ contentPath = ""
    /\ options = ZeroOptions /\ from = <<>> /\ to = <<>> /\ dir = ""
    /\ fs = EmptyMap /\ request = NoRequest /\ path = NoPath
    /\ encodings = <<>> /\ opened = NoOpened /\ files = <<>> /\ stack = <<>>
    /\ resp = NoResp /\ merged = <<>>

\* headerValue := options.BuildHeaderValues()
BuildHeader ==
    /\ pc = "new"
    /\ headerValue' = BuildHeaderValues(cacheOptions)
    /\ pc' = "built"
    /\ UNCHANGED <<configVars, closureVars, request, fs, path, encodings,
                   opened, files, stack, resp, merged, cacheOptions>>

CacheNext == BuildHeader

CacheSpec == CacheInit /\ [][CacheNext]_vars

\* d in seconds, halves rounded away from zero
WholeSeconds(d) ==
    IF d < 0 THEN -((Abs(d) + 500000000) \div Second)
    ELSE (d + 500000000) \div Second

\* the directives in their fixed order: whether set, and the token
Directives(t) ==
    << <<t.Access # "", t.Access>>,
       <<t.MaxAge # 0, "max-age=" \o Itoa(WholeSeconds(t.MaxAge))>>,
       <<t.SMaxAge # 0, "s-max-age=" \o Itoa(WholeSeconds(t.SMaxAge))>>,
       <<t.NoCache, "no-cache">>,
       <<t.NoStore, "no-store">>,
       <<t.MustRevalidate, "must-revalidate">>,
       <<t.ProxyRevalidate, "proxy-revalidate">>,
       <<t.MustUnderstand, "must-understand">>,
       <<t.NoTransform, "no-transform">>,
       <<t.Immutable, "immutable">> >>

IsDirectiveSet(d) == d[1]

SetTokens(t) ==
    LET ds == SelectSeq(Directives(t), IsDirectiveSet)
    IN  [i \in DOMAIN ds |-> ds[i][2]]

\* C7: the header value is the tokens of the directives that are set, in the
\* fixed order, joined by ", ", and it is empty exactly when none is set.
HeaderValueFormat ==
    pc = "built" =>
        /\ headerValue = JoinStrings(SetTokens(cacheOptions), ", ")
        /\ headerValue = "" <=> SetTokens(cacheOptions) = <<>>

\* every directive is set
HeaderValueWitness ==
    /\ pc = "built"
    /\ Len(SetTokens(cacheOptions)) = 10
    /\ cacheOptions.MaxAge = 1500000000
    /\ headerValue = "public, max-age=2, s-max-age=1, no-cache, no-store, "
           \o "must-revalidate, proxy-revalidate, must-understand, "
           \o "no-transform, immutable"
============================================================================
